---- MODULE Spec2Model ----
(***************************************************************************)
(* A model of OSCommand.PipeCommands (pkg/commands/oscommands/os.go).      *)
(*                                                                         *)
(* The caller's thread ("main") logs the pipeline, wires the stdout of     *)
(* every stage to the stdin of the next one, spawns one goroutine per      *)
(* stage, waits on a sync.WaitGroup and builds the aggregate error.  Each  *)
(* goroutine opens the stage's stderr pipe, starts the process, reads      *)
(* stderr to the end, appends the block to the shared slice finalErrors    *)
(* and waits for the process.  The stage processes themselves and the      *)
(* pipes between them are part of the model: a pipe holds one unit, a      *)
(* writer blocks while it is full, a reader sees end-of-file when the pipe *)
(* is empty and every write end is closed.  A stage process reads its      *)
(* stdin to the end, writes what it has to write and exits.                *)
(*                                                                         *)
(* Stages are numbered 1..n here (0..n-1 in the Go code).  Strings are     *)
(* sequences of one-character strings.                                     *)
(*                                                                         *)
(* The other operations are modelled further down, each with a             *)
(* specification of its own that leaves the state of the others alone:     *)
(* AppendLineToFile and FileExists (FileSpec), CopyToClipboard and         *)
(* PasteFromClipboard (ClipSpec), the diff context size as the integration *)
(* test DiffContextChange drives it (DiffSpec), and commitMessageEditor    *)
(* (pkg/gui/editors.go, EditorSpec).                                       *)
(***************************************************************************)
EXTENDS Integers, Sequences, FiniteSets, TLC

\* ------------------------------------------------------------------ bounds

\* the longest pipeline explored
MaxStages == 2

\* the display string (CmdObj.ToString()) of the stage at position k
Display(k) == IF k % 2 = 1 THEN << "a" >> ELSE << "b", "c" >>

\* the texts a stage may write to its stderr
ErrTexts == { <<>>, <<"x">>, <<"y", "z">> }

\* the amounts a stage may write to its stdout, in units; a pipe buffer
\* holds one unit: one unit fits into the pipe without a reader, two do not
OutSizes == { 0, 1, 2 }

Stages == 1..MaxStages

\* every pipeline PipeCommands may be called with, as the list of the
\* stages' display strings
Pipelines == { [k \in 1..n |-> Display(k)] : n \in 0..MaxStages }

\* ------------------------------------------------------------------- state

VARIABLES
    mainPc,        \* where the caller's thread is in PipeCommands
    cmdObjs,       \* the argument: the stages' display strings
    idx,           \* the loop variable of the loop main is in
    log,           \* the events handed to guiIO.logCommandFn
    cmdStdin,      \* cmds[k].Stdin: 0 is nil, j is the read end of stage j's stdout pipe
    cmdStdout,     \* cmds[k].Stdout: 0 is nil, k is the write end of stage k's stdout pipe
    pr,            \* the parent's read end of stage k's stdout pipe
    pw,            \* the parent's write end of stage k's stdout pipe
    finalErrors,   \* the shared slice of stderr blocks
    wg,            \* the WaitGroup's counter
    result,        \* what PipeCommands returned
    g,             \* where stage k's goroutine is
    stderrR,       \* the parent's read end of stage k's stderr pipe
    b,             \* what io.ReadAll has read of stage k's stderr so far
    snap,          \* the value of finalErrors that stage k's append has loaded
    proc,          \* stage k's process
    procStdin,     \* what stage k's process got as file descriptor 0
    outRemaining,  \* units stage k's process still has to write to its stdout pipe
    outBuf,        \* units in stage k's stdout pipe
    written,       \* units stage k's process has written to its stdout pipe
    received,      \* units stage k's process has read from stdin
    errRemaining,  \* what stage k's process still has to write to its stderr pipe
    errBuf,        \* what is in stage k's stderr pipe
    errText,       \* everything stage k's process writes to its stderr pipe
    startErr,      \* cmd.Start() of stage k returned an error
    waitErr,       \* cmd.Wait() of stage k returned an error
    startCalls,    \* how often cmd.Start() of stage k was called
    waitCalls,     \* how often cmd.Wait() of stage k was called
    file,          \* the file AppendLineToFile and FileExists work on, and their last call
    clip,          \* the clipboard configuration, the clipboard, and the last copy and paste
    diff,          \* the diff context size, the focused panel and the toasts shown
    editor         \* the commit message view and the key event commitMessageEditor is handling

\* the state of a PipeCommands call
pipeVars == << mainPc, cmdObjs, idx, log, cmdStdin, cmdStdout, pr, pw,
               finalErrors, wg, result, g, stderrR, b, snap, proc, procStdin,
               outRemaining, outBuf, written, received, errRemaining, errBuf,
               errText, startErr, waitErr, startCalls, waitCalls >>

\* the state the other operations work on; PipeCommands leaves it alone
facadeVars == << file, clip, diff, editor >>

vars == << pipeVars, facadeVars >>

mainVars == << mainPc, cmdObjs, idx, log, result >>
wireVars == << cmdStdin, cmdStdout >>
procVars == << proc, procStdin, outRemaining, outBuf, written, received,
               errRemaining, errBuf, errText >>
histVars == << startErr, waitErr, startCalls, waitCalls >>

\* len(cmds)
NumCmds == Len(cmdObjs)

\* ------------------------------------------------------------- pure helpers

\* strings.Join(elems, sep)
RECURSIVE JoinFrom(_, _, _)
JoinFrom(elems, sep, k) ==
    IF k > Len(elems) THEN <<>>
    ELSE sep \o elems[k] \o JoinFrom(elems, sep, k + 1)

Join(elems, sep) ==
    IF Len(elems) = 0 THEN <<>>
    ELSE IF Len(elems) = 1 THEN elems[1]
    ELSE elems[1] \o JoinFrom(elems, sep, 2)

\* the separator of the logged pipeline
PipeSep == << " ", "|", " " >>

\* the separator of the aggregate error
NewLine == << "\n" >>

\* the event LogCommand hands to the observer
LogEvent(cmdStr, commandLine) == [ cmdStr |-> cmdStr, commandLine |-> commandLine ]

\* the command string with the stages joined by a bare "|"
LogCmdStr_bare(objs) == Join(objs, << "|" >>)

\* the command string PipeCommands logs
LogCmdStr(objs) == Join(objs, PipeSep)

\* wg.Add called with one less than the number of stages
WgAddCount_short(n) == n - 1

\* what wg.Add is called with
WgAddCount(n) == n

\* the wiring loop running over the last stage too
WireBound_all(n) == n

\* the last index of the wiring loop, for i := range len(cmds) - 1
WireBound(n) == n - 1

\* a goroutine that waits right after the start, before reading stderr
AfterStart_wait == "wait"

\* where a goroutine goes after cmd.Start()
AfterStart == "readAll"

\* the value PipeCommands returns once every goroutine is done
Aggregate(errs) ==
    IF Len(errs) > 0 THEN [ kind |-> "error", text |-> Join(errs, NewLine) ]
    ELSE [ kind |-> "nil", text |-> <<>> ]

\* -------------------------------------------------------------------- Init

\* no PipeCommands call has been made
PipeInit ==
    /\ mainPc = "idle"
    /\ cmdObjs = <<>>
    /\ idx = 0
    /\ log = <<>>
    /\ cmdStdin = [k \in Stages |-> 0]
    /\ cmdStdout = [k \in Stages |-> 0]
    /\ pr = [k \in Stages |-> "unset"]
    /\ pw = [k \in Stages |-> "unset"]
    /\ finalErrors = <<>>
    /\ wg = 0
    /\ result = [ kind |-> "none", text |-> <<>> ]
    /\ g = [k \in Stages |-> "notSpawned"]
    /\ stderrR = [k \in Stages |-> "unset"]
    /\ b = [k \in Stages |-> <<>>]
    /\ snap = [k \in Stages |-> <<>>]
    /\ proc = [k \in Stages |-> "none"]
    /\ procStdin = [k \in Stages |-> "none"]
    /\ outRemaining = [k \in Stages |-> 0]
    /\ outBuf = [k \in Stages |-> 0]
    /\ written = [k \in Stages |-> 0]
    /\ received = [k \in Stages |-> 0]
    /\ errRemaining = [k \in Stages |-> <<>>]
    /\ errBuf = [k \in Stages |-> <<>>]
    /\ errText = [k \in Stages |-> <<>>]
    /\ startErr = [k \in Stages |-> FALSE]
    /\ waitErr = [k \in Stages |-> FALSE]
    /\ startCalls = [k \in Stages |-> 0]
    /\ waitCalls = [k \in Stages |-> 0]

\* what LogCommand last handed to the observer, before any call
NoEvent == [ kind |-> "none" ]

\* a file that does not exist, with no call of AppendLineToFile or
\* FileExists made
NoFileCall(exists, content) ==
    [ exists |-> exists, content |-> content, op |-> "none", line |-> <<>>,
      before |-> <<>>, ret |-> "none", appended |-> <<>>, clean |-> TRUE,
      calls |-> 0, stat |-> "none", found |-> FALSE, err |-> FALSE,
      logged |-> NoEvent ]

FileIdle == file = NoFileCall(FALSE, <<>>)

\* the clipboard settings and the native clipboard, with no call of
\* CopyToClipboard or PasteFromClipboard made
NoClipCall(copyCmd, readCmd, native) ==
    [ copyCmd |-> copyCmd, readCmd |-> readCmd, native |-> native,
      op |-> "none", via |-> "none", ran |-> "none", sent |-> <<>>,
      raw |-> <<>>, ret |-> "none", text |-> <<>>, logged |-> NoEvent ]

ClipIdle == clip = NoClipCall("", "", <<>>)

\* the diff context size lazygit starts with
DefaultDiffContextSize == 3

\* no toast on the screen
NoToast == << >>

\* lazygit has started: the files panel has the focus, no key was pressed
DiffStart ==
    [ focus |-> "files", size |-> DefaultDiffContextSize, toast |-> NoToast,
      toasts |-> <<>>, key |-> "none", before |-> DefaultDiffContextSize,
      script |-> 0 ]

DiffIdle == diff = DiffStart

\* the commit message view is empty and no key event has been delivered;
\* appendNewline is the key the AppendNewline binding resolves to
NoKeyEvent(appendNewline) ==
    [ appendNewline |-> appendNewline, buffer |-> <<>>, cx |-> 0,
      overwrite |-> FALSE, pc |-> "idle", key |-> "none", ch |-> "nul",
      newlineKey |-> "none", matched |-> FALSE, applied |-> FALSE,
      renders |-> 0, shown |-> 0, handled |-> "none" ]

EditorIdle == editor = NoKeyEvent("Enter")

\* PipeCommands' starting state; the other operations are not called
Init ==
    /\ PipeInit
    /\ FileIdle
    /\ ClipIdle
    /\ DiffIdle
    /\ EditorIdle

\* ------------------------------------------------------ the caller's thread

\* PipeCommands is called: the command string is built and logged
PipeCommandsLog ==
    /\ mainPc = "idle"
    /\ \E objs \in Pipelines :
         /\ cmdObjs' = objs
         /\ log' = Append(log, LogEvent(LogCmdStr(objs), TRUE))
    /\ mainPc' = "wire"
    /\ idx' = 1
    /\ UNCHANGED facadeVars
    /\ UNCHANGED << result, wireVars, pr, pw, finalErrors, wg, g, stderrR, b,
                    snap, procVars, histVars >>

\* one iteration of the wiring loop, cmds[i].StdoutPipe() succeeding
WireStage ==
    /\ mainPc = "wire"
    /\ idx <= WireBound(NumCmds)
    /\ cmdStdout' = [cmdStdout EXCEPT ![idx] = idx]
    /\ pr' = [pr EXCEPT ![idx] = "open"]
    /\ pw' = [pw EXCEPT ![idx] = "open"]
    /\ cmdStdin' = [cmdStdin EXCEPT ![idx + 1] = idx]
    /\ idx' = idx + 1
    /\ UNCHANGED facadeVars
    /\ UNCHANGED << mainPc, cmdObjs, log, result, finalErrors, wg, g, stderrR,
                    b, snap, procVars, histVars >>

\* a wiring loop that notes the error and goes on instead of returning
AfterWireFails_noReturn == "wire"

\* where main goes when cmds[i].StdoutPipe() fails: return err
AfterWireFails == "done"

\* one iteration of the wiring loop, cmds[i].StdoutPipe() failing
WireFails ==
    /\ mainPc = "wire"
    /\ idx <= WireBound(NumCmds)
    /\ mainPc' = AfterWireFails
    /\ result' = [ kind |-> "pipeErr", text |-> <<>> ]
    /\ UNCHANGED facadeVars
    /\ UNCHANGED << cmdObjs, idx, log, wireVars, pr, pw, finalErrors, wg, g,
                    stderrR, b, snap, procVars, histVars >>

\* the wiring loop is over: finalErrors and the WaitGroup are set up
WireDone ==
    /\ mainPc = "wire"
    /\ idx > WireBound(NumCmds)
    /\ finalErrors' = <<>>
    /\ wg' = WgAddCount(NumCmds)
    /\ mainPc' = "spawn"
    /\ idx' = 1
    /\ UNCHANGED facadeVars
    /\ UNCHANGED << cmdObjs, log, result, wireVars, pr, pw, g, stderrR, b,
                    snap, procVars, histVars >>

\* one iteration of the spawning loop: go utils.Safe(func() {...})
Spawn ==
    /\ mainPc = "spawn"
    /\ idx <= NumCmds
    /\ g' = [g EXCEPT ![idx] = "stderrPipe"]
    /\ idx' = idx + 1
    /\ UNCHANGED facadeVars
    /\ UNCHANGED << mainPc, cmdObjs, log, result, wireVars, pr, pw,
                    finalErrors, wg, stderrR, b, snap, procVars, histVars >>

\* the spawning loop is over: main goes on to wg.Wait()
SpawnDone ==
    /\ mainPc = "spawn"
    /\ idx > NumCmds
    /\ mainPc' = "wgWait"
    /\ UNCHANGED facadeVars
    /\ UNCHANGED << cmdObjs, idx, log, result, wireVars, pr, pw, finalErrors,
                    wg, g, stderrR, b, snap, procVars, histVars >>

\* wg.Wait() returns and the aggregate error is built and returned
WgWaitReturn ==
    /\ mainPc = "wgWait"
    /\ wg = 0
    /\ result' = Aggregate(finalErrors)
    /\ mainPc' = "done"
    /\ UNCHANGED facadeVars
    /\ UNCHANGED << cmdObjs, idx, log, wireVars, pr, pw, finalErrors, wg, g,
                    stderrR, b, snap, procVars, histVars >>

\* ------------------------------------------------- the goroutine of stage k

\* the program has not been ended by a panic
Alive == mainPc # "crashed"

\* stderr, err := cmd.StderrPipe(), succeeding
StderrPipe(k) ==
    /\ Alive
    /\ g[k] = "stderrPipe"
    /\ stderrR' = [stderrR EXCEPT ![k] = "open"]
    /\ g' = [g EXCEPT ![k] = "start"]
    /\ UNCHANGED facadeVars
    /\ UNCHANGED << mainVars, wireVars, pr, pw, finalErrors, wg, b, snap,
                    procVars, histVars >>

\* stderr, err := cmd.StderrPipe(), failing: stderr is nil, the error is logged
StderrPipeFails(k) ==
    /\ Alive
    /\ g[k] = "stderrPipe"
    /\ stderrR' = [stderrR EXCEPT ![k] = "nil"]
    /\ g' = [g EXCEPT ![k] = "start"]
    /\ UNCHANGED facadeVars
    /\ UNCHANGED << mainVars, wireVars, pr, pw, finalErrors, wg, b, snap,
                    procVars, histVars >>

\* a pipe end after Close()
Closed(end) == IF end = "open" THEN "closed" ELSE end

\* the file descriptor 0 a process started now gets for cmds[k].Stdin: nil
\* is the null device; the read end StdoutPipe returned is an *os.File and
\* is passed to the child as it is; once it has been closed (by cmd.Wait()
\* or a failed cmd.Start() of the stage before) the child is left without a
\* usable stdin and reads nothing
ChildStdin(k) ==
    IF cmdStdin[k] = 0 THEN "devnull"
    ELSE IF pr[cmdStdin[k]] = "open" THEN "pipe"
    ELSE "closed"

\* what a process started now may write to its stdout pipe and to its
\* stderr pipe.  A stage whose cmd.Stdout is nil (the last one) writes its
\* output to the null device, and so does a stage whose cmd.Stderr is nil
\* (StderrPipe failed): such writes succeed at once and nobody reads them,
\* they are no steps of the model.
OutChoices(k) == IF cmdStdout[k] = 0 THEN { 0 } ELSE OutSizes

ErrChoices(k) == IF stderrR[k] = "nil" THEN { <<>> } ELSE ErrTexts

\* cmd.Start() succeeds: the process runs; the parent closes its copies of
\* the child's ends (the write end of the stdout pipe)
StartOk(k) ==
    /\ Alive
    /\ g[k] = "start"
    /\ \E out \in OutChoices(k), text \in ErrChoices(k) :
         /\ outRemaining' = [outRemaining EXCEPT ![k] = out]
         /\ errRemaining' = [errRemaining EXCEPT ![k] = text]
         /\ errText' = [errText EXCEPT ![k] = text]
    /\ proc' = [proc EXCEPT ![k] = "running"]
    /\ procStdin' = [procStdin EXCEPT ![k] = ChildStdin(k)]
    /\ pw' = [pw EXCEPT ![k] = Closed(pw[k])]
    /\ startCalls' = [startCalls EXCEPT ![k] = @ + 1]
    /\ g' = [g EXCEPT ![k] = AfterStart]
    /\ UNCHANGED facadeVars
    /\ UNCHANGED << mainVars, wireVars, pr, finalErrors, wg, stderrR, b, snap,
                    outBuf, written, received, errBuf, startErr, waitErr,
                    waitCalls >>

\* cmd.Start() fails: there is no process, the error is logged, and Start
\* has closed every pipe end of the stage the parent held
StartFails(k) ==
    /\ Alive
    /\ g[k] = "start"
    /\ proc' = [proc EXCEPT ![k] = "startFailed"]
    /\ pw' = [pw EXCEPT ![k] = Closed(pw[k])]
    /\ pr' = [pr EXCEPT ![k] = Closed(pr[k])]
    /\ stderrR' = [stderrR EXCEPT ![k] = Closed(stderrR[k])]
    /\ startErr' = [startErr EXCEPT ![k] = TRUE]
    /\ startCalls' = [startCalls EXCEPT ![k] = @ + 1]
    /\ g' = [g EXCEPT ![k] = AfterStart]
    /\ UNCHANGED facadeVars
    /\ UNCHANGED << mainVars, wireVars, finalErrors, wg, b, snap, procStdin,
                    outRemaining, outBuf, written, received, errRemaining,
                    errBuf, errText, waitErr, waitCalls >>

\* io.ReadAll(stderr) with stderr nil: the call panics.  utils.Safe restores
\* the terminal and lets the panic go on, which ends the program: the
\* goroutine never reaches wg.Done() and PipeCommands never returns
ReadAllPanics(k) ==
    /\ Alive
    /\ g[k] = "readAll"
    /\ stderrR[k] = "nil"
    /\ g' = [g EXCEPT ![k] = "panicked"]
    /\ mainPc' = "crashed"
    /\ UNCHANGED facadeVars
    /\ UNCHANGED << cmdObjs, idx, log, result, wireVars, pr, pw, finalErrors,
                    wg, stderrR, b, snap, procVars, histVars >>

\* io.ReadAll(stderr) on a read end that Start closed: it returns an error
\* and the block is skipped
ReadAllFails(k) ==
    /\ Alive
    /\ g[k] = "readAll"
    /\ stderrR[k] = "closed"
    /\ g' = [g EXCEPT ![k] = "wait"]
    /\ UNCHANGED facadeVars
    /\ UNCHANGED << mainVars, wireVars, pr, pw, finalErrors, wg, stderrR, b,
                    snap, procVars, histVars >>

\* io.ReadAll(stderr) takes what is in the pipe
ReadAllChunk(k) ==
    /\ Alive
    /\ g[k] = "readAll"
    /\ stderrR[k] = "open"
    /\ errBuf[k] # <<>>
    /\ b' = [b EXCEPT ![k] = @ \o errBuf[k]]
    /\ errBuf' = [errBuf EXCEPT ![k] = <<>>]
    /\ UNCHANGED facadeVars
    /\ UNCHANGED << mainVars, wireVars, pr, pw, finalErrors, wg, g, stderrR,
                    snap, proc, procStdin, outRemaining, outBuf, written,
                    received, errRemaining, errText, histVars >>

\* a goroutine that appends the block it read even when it is empty
AfterReadAll_always(block) == "appendLoad"

\* where the goroutine goes after io.ReadAll returned block without an error
AfterReadAll(block) == IF Len(block) > 0 THEN "appendLoad" ELSE "wait"

\* io.ReadAll(stderr) reaches end-of-file: the pipe is empty and the
\* process, the only holder of a write end left, has exited
ReadAllEOF(k) ==
    /\ Alive
    /\ g[k] = "readAll"
    /\ stderrR[k] = "open"
    /\ errBuf[k] = <<>>
    /\ proc[k] = "exited"
    /\ g' = [g EXCEPT ![k] = AfterReadAll(b[k])]
    /\ UNCHANGED facadeVars
    /\ UNCHANGED << mainVars, wireVars, pr, pw, finalErrors, wg, stderrR, b,
                    snap, procVars, histVars >>

\* finalErrors = append(finalErrors, string(b)), first half: the slice is
\* loaded.  Nothing orders the appends of different goroutines (a data
\* race): between the load and the store of one goroutine any number of
\* loads and stores of the others may happen.
AppendLoad(k) ==
    /\ Alive
    /\ g[k] = "appendLoad"
    /\ snap' = [snap EXCEPT ![k] = finalErrors]
    /\ g' = [g EXCEPT ![k] = "appendStore"]
    /\ UNCHANGED facadeVars
    /\ UNCHANGED << mainVars, wireVars, pr, pw, finalErrors, wg, stderrR, b,
                    procVars, histVars >>

\* finalErrors = append(finalErrors, string(b)), second half: the slice
\* that was loaded, with the block added, is stored
AppendStore(k) ==
    /\ Alive
    /\ g[k] = "appendStore"
    /\ finalErrors' = Append(snap[k], b[k])
    /\ snap' = [snap EXCEPT ![k] = <<>>]
    /\ g' = [g EXCEPT ![k] = "wait"]
    /\ UNCHANGED facadeVars
    /\ UNCHANGED << mainVars, wireVars, pr, pw, wg, stderrR, b,
                    procVars, histVars >>

\* cmd.Wait() of a stage that was never started: an error, logged
WaitNotStarted(k) ==
    /\ Alive
    /\ g[k] = "wait"
    /\ proc[k] = "startFailed"
    /\ waitErr' = [waitErr EXCEPT ![k] = TRUE]
    /\ waitCalls' = [waitCalls EXCEPT ![k] = @ + 1]
    /\ g' = [g EXCEPT ![k] = "wgDone"]
    /\ UNCHANGED facadeVars
    /\ UNCHANGED << mainVars, wireVars, pr, pw, finalErrors, wg, stderrR, b,
                    snap, procVars, startErr, startCalls >>

\* cmd.Wait() of a started stage: it returns once the process has exited,
\* with an error if the exit status is not 0, and closes the read ends of
\* the stage's stdout and stderr pipes that the parent holds
WaitExited(k) ==
    /\ Alive
    /\ g[k] = "wait"
    /\ proc[k] = "exited"
    /\ \E status \in {0, 1} : waitErr' = [waitErr EXCEPT ![k] = (status # 0)]
    /\ pr' = [pr EXCEPT ![k] = Closed(pr[k])]
    /\ stderrR' = [stderrR EXCEPT ![k] = Closed(stderrR[k])]
    /\ waitCalls' = [waitCalls EXCEPT ![k] = @ + 1]
    /\ g' = [g EXCEPT ![k] = "wgDone"]
    /\ UNCHANGED facadeVars
    /\ UNCHANGED << mainVars, wireVars, pw, finalErrors, wg, b, snap,
                    procVars, startErr, startCalls >>

\* wg.Done()
WgDone(k) ==
    /\ Alive
    /\ g[k] = "wgDone"
    /\ wg' = wg - 1
    /\ g' = [g EXCEPT ![k] = "returned"]
    /\ UNCHANGED facadeVars
    /\ UNCHANGED << mainVars, wireVars, pr, pw, finalErrors, stderrR, b, snap,
                    procVars, histVars >>

\* --------------------------------------------------- the process of stage k

\* the process reads a unit from the pipe that is its stdin
ProcRead(k) ==
    /\ Alive
    /\ proc[k] = "running"
    /\ procStdin[k] = "pipe"
    /\ outBuf[cmdStdin[k]] > 0
    /\ outBuf' = [outBuf EXCEPT ![cmdStdin[k]] = @ - 1]
    /\ received' = [received EXCEPT ![k] = @ + 1]
    /\ UNCHANGED facadeVars
    /\ UNCHANGED << mainVars, wireVars, pr, pw, finalErrors, wg, g, stderrR,
                    b, snap, proc, procStdin, outRemaining, written,
                    errRemaining, errBuf, errText, histVars >>

\* the process writes a unit to its stdout pipe, if there is room
ProcWrite(k) ==
    /\ Alive
    /\ proc[k] = "running"
    /\ outRemaining[k] > 0
    /\ outBuf[k] = 0
    /\ outBuf' = [outBuf EXCEPT ![k] = 1]
    /\ outRemaining' = [outRemaining EXCEPT ![k] = @ - 1]
    /\ written' = [written EXCEPT ![k] = @ + 1]
    /\ UNCHANGED facadeVars
    /\ UNCHANGED << mainVars, wireVars, pr, pw, finalErrors, wg, g, stderrR,
                    b, snap, proc, procStdin, received, errRemaining, errBuf,
                    errText, histVars >>

\* the process writes a character to its stderr pipe, if there is room
ProcWriteErr(k) ==
    /\ Alive
    /\ proc[k] = "running"
    /\ errRemaining[k] # <<>>
    /\ errBuf[k] = <<>>
    /\ errBuf' = [errBuf EXCEPT ![k] = << Head(errRemaining[k]) >>]
    /\ errRemaining' = [errRemaining EXCEPT ![k] = Tail(@)]
    /\ UNCHANGED facadeVars
    /\ UNCHANGED << mainVars, wireVars, pr, pw, finalErrors, wg, g, stderrR,
                    b, snap, proc, procStdin, outRemaining, outBuf, written,
                    received, errText, histVars >>

\* the process's stdin is at end-of-file: the null device, no usable stdin,
\* or a pipe that is empty and has no write end open any more
StdinAtEOF(k) ==
    \/ procStdin[k] \in {"devnull", "closed"}
    \/ /\ procStdin[k] = "pipe"
       /\ outBuf[cmdStdin[k]] = 0
       /\ pw[cmdStdin[k]] # "open"
       /\ proc[cmdStdin[k]] # "running"

\* the process exits: it has read its stdin to the end and written all its
\* output
ProcExit(k) ==
    /\ Alive
    /\ proc[k] = "running"
    /\ StdinAtEOF(k)
    /\ outRemaining[k] = 0
    /\ errRemaining[k] = <<>>
    /\ proc' = [proc EXCEPT ![k] = "exited"]
    /\ UNCHANGED facadeVars
    /\ UNCHANGED << mainVars, wireVars, pr, pw, finalErrors, wg, g, stderrR,
                    b, snap, procStdin, outRemaining, outBuf, written,
                    received, errRemaining, errBuf, errText, histVars >>

\* ------------------------------------------------------------ specification

Main ==
    \/ PipeCommandsLog
    \/ WireStage
    \/ WireFails
    \/ WireDone
    \/ Spawn
    \/ SpawnDone
    \/ WgWaitReturn

Goroutine(k) ==
    \/ StderrPipe(k)
    \/ StderrPipeFails(k)
    \/ StartOk(k)
    \/ StartFails(k)
    \/ ReadAllPanics(k)
    \/ ReadAllFails(k)
    \/ ReadAllChunk(k)
    \/ ReadAllEOF(k)
    \/ AppendLoad(k)
    \/ AppendStore(k)
    \/ WaitNotStarted(k)
    \/ WaitExited(k)
    \/ WgDone(k)

Process(k) ==
    \/ ProcRead(k)
    \/ ProcWrite(k)
    \/ ProcWriteErr(k)
    \/ ProcExit(k)

Next ==
    \/ Main
    \/ \E k \in Stages : Goroutine(k)
    \/ \E k \in Stages : Process(k)

Spec == Init /\ [][Next]_vars

\* the scheduler runs every thread, goroutine and process that can take a
\* step
FairSpec ==
    /\ Spec
    /\ WF_vars(Main)
    /\ \A k \in Stages : WF_vars(Goroutine(k)) /\ WF_vars(Process(k))

\* ---------------------------------------------------------------- properties

\* PipeCommands has returned
Returned == mainPc = "done"

\* PipeCommands has returned after launching the stages
Launched == Returned /\ result.kind # "pipeErr"

\* stage k wrote to its stderr
WroteStderr(k) == errText[k] # <<>>

\* the stderr blocks of the stages that wrote to stderr, in stage order
StageOrderBlocks ==
    SelectSeq([k \in 1..NumCmds |-> errText[k]], LAMBDA t : t # <<>>)

\* C1: the aggregate error PipeCommands returns is the stderr blocks of the
\* stages that wrote to stderr, joined by newline in stage order, not in the
\* order the stages finished.  Stated for the runs in which as many blocks
\* were collected as stages wrote to stderr, where the order alone decides.
C1_StageOrder ==
    (Launched /\ Len(finalErrors) = Len(StageOrderBlocks)) =>
        IF StageOrderBlocks = <<>>
        THEN result.kind = "nil"
        ELSE /\ result.kind = "error"
             /\ result.text = Join(StageOrderBlocks, NewLine)

\* C2: when the aggregate is built, every stage that wrote to stderr has its
\* block in finalErrors exactly once: no append is lost
C2_NoBlockLost ==
    Launched =>
        /\ Len(finalErrors) = Cardinality({ k \in 1..NumCmds : WroteStderr(k) })
        /\ \A k \in 1..NumCmds :
             WroteStderr(k) =>
                 \E j \in DOMAIN finalErrors : finalErrors[j] = errText[k]

\* C3 as stated: PipeCommands returns an error whenever a stage's stderr was
\* non-empty or a stage's wait failed
C3_ErrorOnAnyFailure ==
    Returned =>
        ( (\E k \in 1..NumCmds : WroteStderr(k) \/ waitErr[k])
            => result.kind # "nil" )

\* C3 as amended: PipeCommands returns an error whenever a stage's stderr
\* was non-empty or a stdout pipe could not be created, and success
\* otherwise, also when a stage could not be started or its wait failed
C3_ErrorIffStderr ==
    Returned =>
        /\ result.kind \in { "nil", "error", "pipeErr" }
        /\ result.kind = "error" <=> (\E k \in 1..NumCmds : WroteStderr(k))
        /\ result.kind = "pipeErr" => \A k \in Stages : startCalls[k] = 0

\* C3: PipeCommands has returned success although a stage's wait failed
C3_Witness ==
    /\ Returned
    /\ result.kind = "nil"
    /\ \E k \in 1..NumCmds : waitErr[k] /\ ~startErr[k]
    /\ \E k \in 1..NumCmds : startErr[k]

\* C4: stage k+1 reads on its stdin exactly what stage k wrote to its stdout
C4_PipeComposition ==
    \A k \in 1..(NumCmds - 1) :
        (proc[k] = "exited" /\ proc[k + 1] = "exited")
            => received[k + 1] = written[k]

\* every stage's unit of work is over: start attempted once, stderr read to
\* the end, wait returned, wg.Done() called, and no process left running
AllStagesOver ==
    \A k \in 1..NumCmds :
        /\ g[k] = "returned"
        /\ startCalls[k] = 1
        /\ waitCalls[k] = 1
        /\ proc[k] \in { "exited", "startFailed" }
        /\ errBuf[k] = <<>>
        /\ proc[k] = "exited" => b[k] = errText[k]

\* C5: the aggregate is not built and PipeCommands does not return after
\* launching the stages before every stage's unit of work is over
C5_Barrier ==
    (Launched \/ result.kind \in { "nil", "error" }) => AllStagesOver

\* C5: PipeCommands has returned an aggregate error from a pipeline of
\* several stages, one of which could not be started
C5_Witness ==
    /\ Launched
    /\ NumCmds >= 2
    /\ result.kind = "error"
    /\ \E k \in 1..NumCmds : startErr[k]

\* a stage of the pipeline could not be started, or its wait failed
SomeStageFailed == \E k \in 1..NumCmds : startErr[k] \/ waitErr[k]

\* C6: when a stage fails to start or its wait fails, the other stages are
\* still started, drained and waited on and PipeCommands still returns: the
\* call is never stuck short of returning, and it returns with every stage
\* over
C6_BestEffort ==
    (SomeStageFailed /\ Alive) =>
        /\ Returned \/ ENABLED Next
        /\ Returned => AllStagesOver

\* the text a pipeline is logged as: at Offset(k) stands the display string
\* of stage k, and between two of them " | "
RECURSIVE Offset(_)
Offset(k) == IF k = 1 THEN 1 ELSE Offset(k - 1) + Len(cmdObjs[k - 1]) + 3

IsPipelineText(text) ==
    /\ NumCmds = 0 => text = <<>>
    /\ NumCmds > 0 =>
         /\ Len(text) = Offset(NumCmds) + Len(cmdObjs[NumCmds]) - 1
         /\ \A k \in 1..NumCmds :
              /\ SubSeq(text, Offset(k), Offset(k) + Len(cmdObjs[k]) - 1) = cmdObjs[k]
              /\ k < NumCmds =>
                   /\ text[Offset(k) + Len(cmdObjs[k])] = " "
                   /\ text[Offset(k) + Len(cmdObjs[k]) + 1] = "|"
                   /\ text[Offset(k) + Len(cmdObjs[k]) + 2] = " "

\* C7: a PipeCommands call emits exactly one log event, flagged as a command
\* line, whose text is the stages' display strings joined by " | " in stage
\* order, and emits it before any stage is started
C7_LogOnce ==
    /\ Len(log) <= 1
    /\ mainPc # "idle" =>
         /\ Len(log) = 1
         /\ log[1].commandLine = TRUE
         /\ IsPipelineText(log[1].cmdStr)
    /\ (\E k \in Stages : startCalls[k] > 0 \/ proc[k] # "none") => Len(log) = 1

\* C7: a pipeline of several stages has been logged and a stage is running
C7_Witness ==
    /\ NumCmds >= 2
    /\ Len(log) = 1
    /\ \E k \in 1..NumCmds : proc[k] = "running"

\* C8: before any stage is started the stdout of every stage but the last
\* is connected to the stdin of the next one; the stdin of the first stage
\* and the stdout of the last one are never redirected
C8_WiredBeforeStart ==
    /\ \A k \in Stages : k > NumCmds => cmdStdin[k] = 0 /\ cmdStdout[k] = 0
    /\ NumCmds >= 1 => cmdStdin[1] = 0 /\ cmdStdout[NumCmds] = 0
    /\ (\E k \in Stages : g[k] # "notSpawned" \/ startCalls[k] > 0) =>
         \A k \in 1..(NumCmds - 1) :
             /\ cmdStdout[k] = k
             /\ cmdStdin[k + 1] = k
             /\ pr[k] # "unset"
             /\ pw[k] # "unset"

\* C8: a stage of a wired pipeline of several stages has been started
C8_Witness ==
    /\ NumCmds >= 2
    /\ cmdStdin[2] = 1
    /\ \E k \in 1..NumCmds : startCalls[k] = 1

\* C9: in a stage's unit of work the stderr pipe is opened before the
\* process is started, stderr is read only after the start, and the process
\* is waited on only once stderr has been read to the end; a stage is
\* started and waited on at most once
C9_StepOrder ==
    \A k \in Stages :
        /\ startCalls[k] <= 1
        /\ waitCalls[k] <= 1
        /\ startCalls[k] = 1 => stderrR[k] # "unset"
        /\ (b[k] # <<>> \/ g[k] \in { "appendLoad", "appendStore" }) => startCalls[k] = 1
        /\ waitCalls[k] = 1 =>
             /\ startCalls[k] = 1
             /\ errBuf[k] = <<>>
             /\ proc[k] = "exited" => b[k] = errText[k]

\* C9: a stage that wrote more to stderr than its pipe holds has been
\* waited on
C9_Witness ==
    \E k \in 1..NumCmds : waitCalls[k] = 1 /\ Len(errText[k]) = 2

\* C10: PipeCommands eventually returns, unless a stderr pipe could not be
\* created (which ends the program): no stage stays blocked on a full pipe
C10_Terminates ==
    <>(Returned \/ \E k \in Stages : stderrR[k] = "nil")

\* C11: PipeCommands called with an empty command list is rejected with an
\* error and starts no process
C11_EmptyRejected ==
    (Returned /\ NumCmds = 0) =>
        /\ result.kind \in { "error", "pipeErr" }
        /\ \A k \in Stages : startCalls[k] = 0 /\ proc[k] = "none"

\* C19: when a stage's stdout pipe cannot be created while wiring,
\* PipeCommands returns that error at once, with the pipeline's log event
\* emitted and no stage spawned, started or waited on, then or later
C19_PipeErrorReturnsAtOnce ==
    result.kind = "pipeErr" =>
        /\ Returned
        /\ Len(log) = 1
        /\ wg = 0
        /\ \A k \in Stages :
              /\ g[k] = "notSpawned"
              /\ startCalls[k] = 0
              /\ waitCalls[k] = 0
              /\ proc[k] = "none"

\* C19: PipeCommands has returned the error of a stdout pipe of a pipeline
\* of several stages, after logging the pipeline
C19_Witness ==
    /\ Returned
    /\ result.kind = "pipeErr"
    /\ NumCmds >= 2
    /\ Len(log) = 1

\* ------------------------------------------- AppendLineToFile and FileExists

\* the most calls of AppendLineToFile in a run
MaxCalls == 2

\* the lines AppendLineToFile may be called with
FileLines == { <<>>, << "a" >>, << "b" >>, << "a", "\n" >> }

\* what the file may hold before the first call
InitialContents ==
    { <<>>, << "a" >>, << "\n" >>, << "a", "\n" >>, << "\n", "a" >> }

\* the system call of AppendLineToFile that fails, if it is reached
Faults == { "none", "open", "stat", "read", "separator", "line" }

\* what os.Stat may answer for a path that exists or does not: a stat can
\* fail for a reason other than absence (permission denied) either way
StatOutcomes(exists) == IF exists THEN { "ok", "other" } ELSE { "notExist", "other" }

\* a separator written whatever the last byte is
NeedsSeparator_always(last) == TRUE

\* if the last byte of the file is not a newline, add it
NeedsSeparator(last) == last # "\n"

\* a write to a file opened without O_APPEND: it goes to the start of the
\* file, over what is there
WriteString_fromStart(content, bytes) ==
    bytes \o SubSeq(content, Len(bytes) + 1, Len(content))

\* f.WriteString(bytes) on the file opened with O_APPEND: the bytes go to
\* the end of the file
WriteString(content, bytes) == content \o bytes

\* the body of AppendLineToFile after the log call, on a file that exists
\* or not with the given content: the system call named by fault fails if
\* the code gets to it, and a failing write of line + "\n" has put its
\* first n bytes into the file.  The file is opened with O_APPEND and
\* O_CREATE: opening creates it, every write goes to its end.
AppendRun(exists, content, line, fault, n) ==
    IF fault = "open"
    THEN [ exists |-> exists, content |-> content, err |-> TRUE ]
    ELSE
      LET opened == IF exists THEN content ELSE <<>>
          size == Len(opened)
          needed == size > 0 /\ NeedsSeparator(opened[size])
          separated == IF needed THEN WriteString(opened, NewLine) ELSE opened
      IN  IF fault = "stat"
          THEN [ exists |-> TRUE, content |-> opened, err |-> TRUE ]
          ELSE IF size > 0 /\ fault = "read"
          THEN [ exists |-> TRUE, content |-> opened, err |-> TRUE ]
          ELSE IF needed /\ fault = "separator"
          THEN [ exists |-> TRUE, content |-> opened, err |-> TRUE ]
          ELSE IF fault = "line"
          THEN [ exists |-> TRUE,
                 content |-> WriteString(separated, SubSeq(line \o NewLine, 1, n)),
                 err |-> TRUE ]
          ELSE [ exists |-> TRUE,
                 content |-> WriteString(separated, line \o NewLine),
                 err |-> FALSE ]

\* AppendLineToFile(filename, line): the call is logged, then the file is
\* opened, its size taken, its last byte read, and the separator and the
\* line written
AppendLineToFile ==
    /\ file.calls < MaxCalls
    /\ \E line \in FileLines, fault \in Faults :
         \E n \in (IF fault = "line" THEN 0..Len(line) ELSE { 0 }) :
           LET run == AppendRun(file.exists, file.content, line, fault, n)
           IN  file' = [ file EXCEPT
                   !.exists = run.exists,
                   !.content = run.content,
                   !.op = "append",
                   !.line = line,
                   !.before = IF file.exists THEN file.content ELSE <<>>,
                   !.ret = IF run.err THEN "error" ELSE "nil",
                   !.appended = IF run.err THEN @ ELSE Append(@, line),
                   !.clean = @ /\ ~run.err,
                   !.calls = @ + 1,
                   !.logged = [ kind |-> "appendingLineToFile", line |-> line,
                                commandLine |-> FALSE ] ]
    /\ UNCHANGED << pipeVars, clip, diff, editor >>

\* a FileExists that takes every failed stat for absence
FileExistsResult_swallow(outcome) ==
    [ found |-> outcome = "ok", err |-> FALSE ]

\* what FileExists returns for the outcome of os.Stat(path)
FileExistsResult(outcome) ==
    IF outcome # "ok"
    THEN IF outcome = "notExist"
         THEN [ found |-> FALSE, err |-> FALSE ]
         ELSE [ found |-> FALSE, err |-> TRUE ]
    ELSE [ found |-> TRUE, err |-> FALSE ]

\* FileExists(path)
FileExists ==
    /\ \E outcome \in StatOutcomes(file.exists) :
         file' = [ file EXCEPT
             !.op = "exists",
             !.stat = outcome,
             !.found = FileExistsResult(outcome).found,
             !.err = FileExistsResult(outcome).err ]
    /\ UNCHANGED << pipeVars, clip, diff, editor >>

\* the file is absent, empty or holds something; nothing has been called
FileInit ==
    /\ PipeInit
    /\ \E exists \in BOOLEAN, content \in InitialContents :
         /\ ~exists => content = <<>>
         /\ file = [ NoFileCall(exists, content) EXCEPT !.clean = (content = <<>>) ]
    /\ ClipIdle
    /\ DiffIdle
    /\ EditorIdle

FileNext ==
    \/ AppendLineToFile
    \/ FileExists

FileSpec == FileInit /\ [][FileNext]_vars

\* the content the file of the last AppendLineToFile call had before it
\* (nothing when it did not exist) and the line of the call
FileBefore == file.before

FileLine == file.line

\* the last byte of a content that has one
LastByte(content) == content[Len(content)]

\* C12: a successful AppendLineToFile(path, l) on prior content c leaves
\* l + "\n" if c is empty or the file did not exist, c + "\n" + l + "\n" if
\* c is not empty and does not end with a newline, and c + l + "\n" if c
\* ends with a newline
C12_AppendResult ==
    (file.op = "append" /\ file.ret = "nil") =>
        /\ file.exists
        /\ FileBefore = <<>> =>
             file.content = FileLine \o << "\n" >>
        /\ (FileBefore # <<>> /\ LastByte(FileBefore) # "\n") =>
             file.content = FileBefore \o << "\n" >> \o FileLine \o << "\n" >>
        /\ (FileBefore # <<>> /\ LastByte(FileBefore) = "\n") =>
             file.content = FileBefore \o FileLine \o << "\n" >>

\* C12: a line has been appended to a file that did not end with a newline
C12_Witness ==
    /\ file.op = "append"
    /\ file.ret = "nil"
    /\ FileBefore = << "\n", "a" >>
    /\ FileLine = << "b" >>
    /\ file.content = << "\n", "a", "\n", "b", "\n" >>

\* what the file holds once line is fully appended to content
FullyUpdated(content, line) ==
    IF content = <<>> THEN line \o << "\n" >>
    ELSE IF LastByte(content) = "\n" THEN content \o line \o << "\n" >>
    ELSE content \o << "\n" >> \o line \o << "\n" >>

\* C13: whenever AppendLineToFile returns an error the file holds either
\* the fully updated content or the content before the call, never the
\* prior content with only the separator (or a part of the line) appended
C13_AllOrNothing ==
    (file.op = "append" /\ file.ret = "error") =>
        \/ file.content = FileBefore
        \/ file.content = FullyUpdated(FileBefore, FileLine)

\* C14: FileExists returns (true, nil) when the stat finds the path,
\* (false, nil) when the stat says the path is absent, and (false, err) on
\* any other stat failure; never true with an error, and never (false, nil)
\* for a failure that is not absence
C14_ThreeOutcomes ==
    file.op = "exists" =>
        /\ file.stat = "ok" => (file.found /\ ~file.err /\ file.exists)
        /\ file.stat = "notExist" => (~file.found /\ ~file.err /\ ~file.exists)
        /\ file.stat = "other" => (~file.found /\ file.err)
        /\ ~(file.found /\ file.err)
        /\ (~file.found /\ ~file.err) => file.stat = "notExist"

\* C14: FileExists has reported an error for a file that exists
C14_Witness ==
    /\ file.op = "exists"
    /\ file.exists
    /\ file.stat = "other"
    /\ file.err

\* text is the lines, each followed by a newline
RECURSIVE LinesText(_)
LinesText(lines) ==
    IF lines = <<>> THEN <<>>
    ELSE Head(lines) \o << "\n" >> \o LinesText(Tail(lines))

\* s is a prefix of t
IsPrefix(s, t) == Len(s) <= Len(t) /\ SubSeq(t, 1, Len(s)) = s

\* no newline in any of the lines
NewlineFree(lines) ==
    \A i \in DOMAIN lines : \A j \in DOMAIN lines[i] : lines[i][j] # "\n"

\* C20: starting from an empty or absent file, after successful calls with
\* newline-free lines l1..ln the file holds l1 + "\n" + ... + ln + "\n";
\* after every successful call the previous content is a prefix of the new
\* content and the file ends with a newline
C20_AppendOnly ==
    /\ (file.clean /\ NewlineFree(file.appended)) =>
          file.content = LinesText(file.appended)
    /\ (file.op = "append" /\ file.ret = "nil") =>
          /\ IsPrefix(FileBefore, file.content)
          /\ Len(file.content) > Len(FileBefore)
          /\ LastByte(file.content) = "\n"

\* C20: two lines have been appended to a file that was empty or absent
C20_Witness ==
    /\ file.clean
    /\ file.op = "append"
    /\ file.appended = << << "a" >>, << "b" >> >>
    /\ file.content = << "a", "\n", "b", "\n" >>

\* --------------------------------------- CopyToClipboard, PasteFromClipboard

\* the longest clipboard content
MaxClipLen == 3

\* the characters of a clipboard content
ClipChars == { "a", "\r", "\n" }

\* the strings of at most n characters
RECURSIVE StringsUpTo(_)
StringsUpTo(n) ==
    IF n = 0 THEN { <<>> }
    ELSE StringsUpTo(n - 1)
           \cup { Append(t, c) : t \in { u \in StringsUpTo(n - 1) : Len(u) = n - 1 },
                                 c \in ClipChars }

\* what the clipboard, or the output of the external read command, may hold
ClipTexts == StringsUpTo(MaxClipLen)

\* the strings CopyToClipboard may be called with
CopyTexts ==
    { <<>>, << "a" >>, << "\n" >>, << "a", "\n" >>, << "\r", "\n" >>,
      << "\r", "\r", "\n" >> }

\* the values of the settings OS.CopyToClipboardCmd and
\* OS.ReadFromClipboardCmd: not set, or a command
CopyCmds == { "", "copy {{text}}" }

ReadCmds == { "", "paste" }

\* strings.ReplaceAll(s, old, new) for a non-empty old: every occurrence of
\* old, found from left to right without overlap, gives way to new
RECURSIVE ReplaceAll(_, _, _)
ReplaceAll(s, old, new) ==
    IF Len(s) < Len(old) THEN s
    ELSE IF SubSeq(s, 1, Len(old)) = old
         THEN new \o ReplaceAll(SubSeq(s, Len(old) + 1, Len(s)), old, new)
         ELSE << Head(s) >> \o ReplaceAll(Tail(s), old, new)

\* the length CopyToClipboard cuts the logged string to
LogTruncateLen == 40

\* utils.TruncateWithEllipsis(str, limit)
TruncateWithEllipsis(str, limit) ==
    IF Len(str) > limit
    THEN SubSeq(str, 1, limit - 3) \o << ".", ".", "." >>
    ELSE str

\* c.Cmd.Quote(message) on a POSIX host, for a message without quotes
Quote(message) == << "'" >> \o message \o << "'" >>

\* a paste that hands the clipboard on as it is
NormalizeLineEndings_none(s) == s

\* strings.ReplaceAll(s, "\r\n", "\n")
NormalizeLineEndings(s) == ReplaceAll(s, << "\r", "\n" >>, << "\n" >>)

\* the setting PasteFromClipboard tests to choose between the external
\* command and the native clipboard
PasteSwitch == clip.copyCmd

\* CopyToClipboard(str): the call is logged with the string escaped and
\* cut; with a copy command configured the command runs through the shell
\* with the quoted string, else the string goes to the native clipboard
CopyToClipboard ==
    /\ \E str \in CopyTexts, failed \in BOOLEAN :
         LET escaped == ReplaceAll(str, << "\n" >>, << "\\", "n" >>)
             truncated == TruncateWithEllipsis(escaped, LogTruncateLen)
             shell == clip.copyCmd # ""
         IN  clip' = [ clip EXCEPT
                 !.op = "copy",
                 !.via = IF shell THEN "shell" ELSE "native",
                 !.ran = IF shell THEN clip.copyCmd ELSE "none",
                 !.sent = IF shell THEN Quote(str) ELSE <<>>,
                 !.native = IF shell \/ failed THEN @ ELSE str,
                 !.raw = <<>>,
                 !.ret = IF failed THEN "error" ELSE "nil",
                 !.text = <<>>,
                 !.logged = [ kind |-> "copyToClipboard", str |-> truncated,
                              commandLine |-> FALSE ] ]
    /\ UNCHANGED << pipeVars, file, diff, editor >>

\* what the shell running cmdStr may print: an empty command prints
\* nothing, the read command prints what its clipboard holds
ShellOutputs(cmdStr) == IF cmdStr = "" THEN { <<>> } ELSE ClipTexts

\* PasteFromClipboard(): the string comes from the external command or from
\* the native clipboard; an error is returned with an empty string, else
\* the string with its line endings replaced
PasteFromClipboard ==
    /\ LET shell == PasteSwitch # ""
           cmdStr == clip.readCmd
           sources == IF shell THEN ShellOutputs(cmdStr) ELSE { clip.native }
           outcomes == { [ failed |-> TRUE, s |-> <<>> ] }
                         \cup { [ failed |-> FALSE, s |-> s ] : s \in sources }
       IN  \E out \in outcomes :
             clip' = [ clip EXCEPT
                 !.op = "paste",
                 !.via = IF shell THEN "shell" ELSE "native",
                 !.ran = IF shell THEN cmdStr ELSE "none",
                 !.sent = <<>>,
                 !.raw = out.s,
                 !.ret = IF out.failed THEN "error" ELSE "nil",
                 !.text = IF out.failed THEN <<>> ELSE NormalizeLineEndings(out.s) ]
    /\ UNCHANGED << pipeVars, file, diff, editor >>

\* the two settings are as the user configured them and the native
\* clipboard holds what any program has put there
ClipInit ==
    /\ PipeInit
    /\ FileIdle
    /\ \E copyCmd \in CopyCmds, readCmd \in ReadCmds, native \in ClipTexts :
         clip = NoClipCall(copyCmd, readCmd, native)
    /\ DiffIdle
    /\ EditorIdle

ClipNext ==
    \/ CopyToClipboard
    \/ PasteFromClipboard

ClipSpec == ClipInit /\ [][ClipNext]_vars

\* PasteFromClipboard has returned a string
Pasted == clip.op = "paste" /\ clip.ret = "nil"

\* s has a CR directly followed by an LF
HasCRLF(s) == \E i \in 1..(Len(s) - 1) : s[i] = "\r" /\ s[i + 1] = "\n"

\* s has a CR directly followed by a CR-LF pair
HasCRCRLF(s) ==
    \E i \in 1..(Len(s) - 2) : s[i] = "\r" /\ s[i + 1] = "\r" /\ s[i + 2] = "\n"

\* the number of CR-LF pairs of s
CountCRLF(s) ==
    Cardinality({ i \in 1..(Len(s) - 1) : s[i] = "\r" /\ s[i + 1] = "\n" })

\* s without its CRs
WithoutCR(s) == SelectSeq(s, LAMBDA c : c # "\r")

\* C15 as stated: the string a successful PasteFromClipboard returns
\* contains no CR-LF pair, whatever the clipboard or the read command gave
C15_NoCRLF == Pasted => ~HasCRLF(clip.text)

\* C15 as amended: a successful PasteFromClipboard returns the content with
\* every CR-LF pair replaced by a single LF in one pass: one character less
\* for every pair, nothing but CRs dropped, and a CR-LF pair in what is
\* returned only where the content had a CR directly before a CR-LF pair
C15_EveryPairReplacedOnce ==
    Pasted =>
        /\ Len(clip.text) = Len(clip.raw) - CountCRLF(clip.raw)
        /\ WithoutCR(clip.text) = WithoutCR(clip.raw)
        /\ HasCRLF(clip.text) => HasCRCRLF(clip.raw)
        /\ ~HasCRLF(clip.raw) => clip.text = clip.raw

\* C15: the external read command printed "a\r\n" and the paste returned
\* "a\n"
C15_Witness ==
    /\ Pasted
    /\ clip.via = "shell"
    /\ clip.raw = << "a", "\r", "\n" >>
    /\ clip.text = << "a", "\n" >>

\* C16: CopyToClipboard runs the external command exactly when
\* CopyToClipboardCmd is set and PasteFromClipboard exactly when
\* ReadFromClipboardCmd is set, each using the native clipboard otherwise;
\* paste never runs an empty command string
C16_RoutingFollowsOperation ==
    /\ clip.op = "copy" =>
         /\ clip.via = "shell" <=> clip.copyCmd # ""
         /\ clip.via = "native" <=> clip.copyCmd = ""
    /\ clip.op = "paste" =>
         /\ clip.via = "shell" <=> clip.readCmd # ""
         /\ clip.via = "native" <=> clip.readCmd = ""
         /\ clip.ran # ""

\* ------------------------------------------------------- diff context size

\* the most toasts shown in a run
MaxToasts == 7

\* the toast that announces a diff context size
ToastText(n) == << "Changed diff context size to ", n >>

\* the key presses of the integration test DiffContextChange, with the view
\* each is sent to and the toast the test expects after it (NoToast where
\* it expects none), but with the secondary panel counting from the
\* default again
DiffContextChangeRun_perPanel ==
    << [ view |-> "files", key |-> "enter", toast |-> NoToast ],
       [ view |-> "staging", key |-> "increase", toast |-> ToastText(4) ],
       [ view |-> "staging", key |-> "decrease", toast |-> ToastText(3) ],
       [ view |-> "staging", key |-> "decrease", toast |-> ToastText(2) ],
       [ view |-> "staging", key |-> "decrease", toast |-> ToastText(1) ],
       [ view |-> "staging", key |-> "primary", toast |-> NoToast ],
       [ view |-> "staging", key |-> "toggle", toast |-> NoToast ],
       [ view |-> "stagingSecondary", key |-> "decrease", toast |-> ToastText(2) ],
       [ view |-> "stagingSecondary", key |-> "increase", toast |-> ToastText(3) ],
       [ view |-> "stagingSecondary", key |-> "increase", toast |-> ToastText(4) ] >>

\* the key presses of the integration test DiffContextChange, with the view
\* each is sent to and the toast the test expects after it (NoToast where
\* it expects none)
DiffContextChangeRun ==
    << [ view |-> "files", key |-> "enter", toast |-> NoToast ],
       [ view |-> "staging", key |-> "increase", toast |-> ToastText(4) ],
       [ view |-> "staging", key |-> "decrease", toast |-> ToastText(3) ],
       [ view |-> "staging", key |-> "decrease", toast |-> ToastText(2) ],
       [ view |-> "staging", key |-> "decrease", toast |-> ToastText(1) ],
       [ view |-> "staging", key |-> "primary", toast |-> NoToast ],
       [ view |-> "staging", key |-> "toggle", toast |-> NoToast ],
       [ view |-> "stagingSecondary", key |-> "decrease", toast |-> ToastText(0) ],
       [ view |-> "stagingSecondary", key |-> "increase", toast |-> ToastText(1) ],
       [ view |-> "stagingSecondary", key |-> "increase", toast |-> ToastText(2) ] >>

\* how far the key presses made so far follow the test, after key is
\* pressed in the focused view: one step further if the press is the test's
\* next one, off the test (-1) otherwise
ScriptAfter(key) ==
    IF /\ diff.script >= 0
       /\ diff.script < Len(DiffContextChangeRun)
       /\ DiffContextChangeRun[diff.script + 1].view = diff.focus
       /\ DiffContextChangeRun[diff.script + 1].key = key
    THEN diff.script + 1
    ELSE -1

\* the two staging panels
StagingPanels == { "staging", "stagingSecondary" }

\* the panel TogglePanel gives the focus to
OtherPanel(view) == IF view = "staging" THEN "stagingSecondary" ELSE "staging"

\* a key that does not touch the diff context size is pressed and the
\* focus goes to view
PressOther(key, view) ==
    diff' = [ diff EXCEPT
        !.focus = view,
        !.toast = NoToast,
        !.key = key,
        !.before = diff.size,
        !.script = ScriptAfter(key) ]

\* Enter on the selected file: the staging panel gets the focus
PressEnter ==
    /\ diff.focus = "files"
    /\ PressOther("enter", "staging")
    /\ UNCHANGED << pipeVars, file, clip, editor >>

\* the primary action in the staging panel: the selected lines are staged
PressPrimaryAction ==
    /\ diff.focus = "staging"
    /\ PressOther("primary", diff.focus)
    /\ UNCHANGED << pipeVars, file, clip, editor >>

\* TogglePanel: the focus goes to the other staging panel
PressTogglePanel ==
    /\ diff.focus \in StagingPanels
    /\ PressOther("toggle", OtherPanel(diff.focus))
    /\ UNCHANGED << pipeVars, file, clip, editor >>

\* IncreaseContextInDiffView in a staging panel: the size goes up by one and
\* is announced
PressIncrease ==
    /\ diff.focus \in StagingPanels
    /\ Len(diff.toasts) < MaxToasts
    /\ diff' = [ diff EXCEPT
           !.size = @ + 1,
           !.toast = ToastText(diff.size + 1),
           !.toasts = Append(@, ToastText(diff.size + 1)),
           !.key = "increase",
           !.before = diff.size,
           !.script = ScriptAfter("increase") ]
    /\ UNCHANGED << pipeVars, file, clip, editor >>

\* DecreaseContextInDiffView in a staging panel, the size above 0: it goes
\* down by one and is announced
PressDecrease ==
    /\ diff.focus \in StagingPanels
    /\ diff.size > 0
    /\ Len(diff.toasts) < MaxToasts
    /\ diff' = [ diff EXCEPT
           !.size = @ - 1,
           !.toast = ToastText(diff.size - 1),
           !.toasts = Append(@, ToastText(diff.size - 1)),
           !.key = "decrease",
           !.before = diff.size,
           !.script = ScriptAfter("decrease") ]
    /\ UNCHANGED << pipeVars, file, clip, editor >>

\* DecreaseContextInDiffView in a staging panel, the size at 0: it stays 0,
\* announced again or not
PressDecreaseAtZero ==
    /\ diff.focus \in StagingPanels
    /\ diff.size = 0
    /\ \E toast \in { NoToast, ToastText(0) } :
         /\ toast # NoToast => Len(diff.toasts) < MaxToasts
         /\ diff' = [ diff EXCEPT
               !.toast = toast,
               !.toasts = IF toast = NoToast THEN @ ELSE Append(@, toast),
               !.key = "decrease",
               !.before = diff.size,
               !.script = ScriptAfter("decrease") ]
    /\ UNCHANGED << pipeVars, file, clip, editor >>

DiffInit ==
    /\ PipeInit
    /\ FileIdle
    /\ ClipIdle
    /\ DiffIdle
    /\ EditorIdle

DiffNext ==
    \/ PressEnter
    \/ PressPrimaryAction
    \/ PressTogglePanel
    \/ PressIncrease
    \/ PressDecrease
    \/ PressDecreaseAtZero

DiffSpec == DiffInit /\ [][DiffNext]_vars

\* the toasts the test expects in its first k steps
ExpectedToasts(k) ==
    SelectSeq([ i \in 1..k |-> DiffContextChangeRun[i].toast ],
              LAMBDA t : t # NoToast)

MaxBufLen == 3

\* the keys of a key event; "Rune" is the key of an event that carries a
\* character, "Esc" and "F1" are keys no case of the editor names
EditorKeys ==
    { "Backspace", "Backspace2", "CtrlD", "Delete", "ArrowDown", "ArrowUp",
      "ArrowLeft", "ArrowRight", "Tab", "Enter", "Space", "Insert", "CtrlU",
      "CtrlA", "CtrlE", "Esc", "F1", "Rune" }

\* the characters a key event may carry: "nul" is the character of an
\* event without one, "bell" a control character
EditorChars == { "nul", "bell", "a" }

\* unicode.IsPrint(ch)
IsPrint(ch) == ch = "a"

\* what the AppendNewline binding may resolve to: a key, or a character
\* ("Rune": not a gocui.Key)
AppendNewlineBindings == { "Enter", "Space", "ArrowDown", "Rune" }

\* newlineKey: the binding if it is a key, else the tab key
NewlineKey(binding) == IF binding = "Rune" THEN "Tab" ELSE binding

\* the case of the switch that is taken for a key event, the first one
\* whose condition holds
EditCase(key, ch, newlineKey) ==
    IF key \in { "Backspace", "Backspace2" } THEN "deleteBack"
    ELSE IF key \in { "CtrlD", "Delete" } THEN "deleteForward"
    ELSE IF key = "ArrowDown" THEN "down"
    ELSE IF key = "ArrowUp" THEN "up"
    ELSE IF key = "ArrowLeft" THEN "left"
    ELSE IF key = "ArrowRight" THEN "right"
    ELSE IF key = newlineKey THEN "newline"
    ELSE IF key = "Space" THEN "space"
    ELSE IF key = "Insert" THEN "insert"
    ELSE IF key = "CtrlU" THEN "deleteToStartOfLine"
    ELSE IF key = "CtrlA" THEN "gotoStartOfLine"
    ELSE IF key = "CtrlE" THEN "gotoEndOfLine"
    ELSE IF IsPrint(ch) THEN "write"
    ELSE "none"

\* the character a case writes into the view
Written(case, ch) ==
    IF case = "newline" THEN "\n" ELSE IF case = "space" THEN " " ELSE ch

\* the cursor position at the start and at the end of the line the cursor
\* c is in; the cursor stands after the first c characters of the buffer
LineStart(buf, c) ==
    CHOOSE i \in 0..c :
        /\ i = 0 \/ buf[i] = "\n"
        /\ \A j \in (i + 1)..c : buf[j] # "\n"

LineEnd(buf, c) ==
    CHOOSE i \in c..Len(buf) :
        /\ i = Len(buf) \/ buf[i + 1] = "\n"
        /\ \A j \in (c + 1)..i : buf[j] # "\n"

Min(m, n) == IF m < n THEN m ELSE n

\* v.MoveCursor(0, -1) and v.MoveCursor(0, 1): to the same column of the
\* line above or below, or to its end if it is shorter
CursorUp(buf, c) ==
    IF LineStart(buf, c) = 0 THEN c
    ELSE LET above == LineStart(buf, LineStart(buf, c) - 1)
         IN  Min(above + (c - LineStart(buf, c)), LineStart(buf, c) - 1)

CursorDown(buf, c) ==
    IF LineEnd(buf, c) = Len(buf) THEN c
    ELSE LET below == LineEnd(buf, c) + 1
         IN  Min(below + (c - LineStart(buf, c)), LineEnd(buf, below))

\* the buffer with the characters from..to taken out
Without(buf, from, to) == SubSeq(buf, 1, from - 1) \o SubSeq(buf, to + 1, Len(buf))

\* v.EditWrite(x), v.EditNewLine(): x goes in at the cursor, over the
\* character there when the view overwrites
WriteAt(buf, c, x, overwrite) ==
    IF overwrite /\ c < Len(buf) /\ x # "\n"
    THEN [ buf EXCEPT ![c + 1] = x ]
    ELSE SubSeq(buf, 1, c) \o << x >> \o SubSeq(buf, c + 1, Len(buf))

\* the view after the call the case makes on it
Edited(case, ch, v) ==
    LET buf == v.buffer
        c == v.cx
    IN  IF case = "deleteBack"
        THEN IF c > 0 THEN [ v EXCEPT !.buffer = Without(buf, c, c), !.cx = c - 1 ]
             ELSE v
        ELSE IF case = "deleteForward"
        THEN IF c < Len(buf) THEN [ v EXCEPT !.buffer = Without(buf, c + 1, c + 1) ]
             ELSE v
        ELSE IF case = "down" THEN [ v EXCEPT !.cx = CursorDown(buf, c) ]
        ELSE IF case = "up" THEN [ v EXCEPT !.cx = CursorUp(buf, c) ]
        ELSE IF case = "left" THEN [ v EXCEPT !.cx = IF c > 0 THEN c - 1 ELSE c ]
        ELSE IF case = "right" THEN [ v EXCEPT !.cx = IF c < Len(buf) THEN c + 1 ELSE c ]
        ELSE IF case \in { "newline", "space", "write" }
        THEN [ v EXCEPT !.buffer = WriteAt(buf, c, Written(case, ch), v.overwrite),
                        !.cx = c + 1 ]
        ELSE IF case = "insert" THEN [ v EXCEPT !.overwrite = ~v.overwrite ]
        ELSE IF case = "deleteToStartOfLine"
        THEN [ v EXCEPT !.buffer = Without(buf, LineStart(buf, c) + 1, c),
                        !.cx = LineStart(buf, c) ]
        ELSE IF case = "gotoStartOfLine" THEN [ v EXCEPT !.cx = LineStart(buf, c) ]
        ELSE IF case = "gotoEndOfLine" THEN [ v EXCEPT !.cx = LineEnd(buf, c) ]
        ELSE v

\* the case makes the buffer longer
Grows(case, v) ==
    /\ case \in { "newline", "space", "write" }
    /\ Len(Edited(case, "a", v).buffer) > Len(v.buffer)

\* an editor that reports only the keys a case has taken as handled
Matched_onlyCases(case) == case # "none"

\* matched := true, which no case changes
Matched(case) == TRUE

\* a key event is delivered: newlineKey is resolved and matched is set
KeyEvent ==
    /\ editor.pc = "idle"
    /\ \E key \in EditorKeys, ch \in EditorChars :
         LET newlineKey == NewlineKey(editor.appendNewline)
             case == EditCase(key, ch, newlineKey)
         IN  /\ (key = "Rune") = (ch # "nul")
             /\ Grows(case, editor) => Len(editor.buffer) < MaxBufLen
             /\ editor' = [ editor EXCEPT
                    !.pc = "switch",
                    !.key = key,
                    !.ch = ch,
                    !.newlineKey = newlineKey,
                    !.matched = Matched(case),
                    !.applied = FALSE,
                    !.renders = 0,
                    !.handled = "none" ]
    /\ UNCHANGED << pipeVars, file, clip, diff >>

\* the switch: the first case that holds makes its call on the view
Switch ==
    /\ editor.pc = "switch"
    /\ editor' = [ Edited(EditCase(editor.key, editor.ch, editor.newlineKey),
                          editor.ch, editor)
                     EXCEPT !.pc = "render", !.applied = TRUE ]
    /\ UNCHANGED << pipeVars, file, clip, diff >>

\* gui.RenderCommitLength(): the length of the message is shown
RenderCommitLength ==
    /\ editor.pc = "render"
    /\ editor' = [ editor EXCEPT
           !.pc = "return",
           !.renders = @ + 1,
           !.shown = Len(editor.buffer) ]
    /\ UNCHANGED << pipeVars, file, clip, diff >>

\* return matched
EditorReturn ==
    /\ editor.pc = "return"
    /\ editor' = [ editor EXCEPT !.pc = "idle", !.handled = editor.matched ]
    /\ UNCHANGED << pipeVars, file, clip, diff >>

\* the AppendNewline binding is as the user configured it
EditorInit ==
    /\ PipeInit
    /\ FileIdle
    /\ ClipIdle
    /\ DiffIdle
    /\ \E binding \in AppendNewlineBindings : editor = NoKeyEvent(binding)

EditorNext ==
    \/ KeyEvent
    \/ Switch
    \/ RenderCommitLength
    \/ EditorReturn

EditorSpec == EditorInit /\ [][EditorNext]_vars

\* commitMessageEditor has returned from a key event
KeyHandled == editor.pc = "idle" /\ editor.key # "none"

\* C18: for every key event, also one no case takes, RenderCommitLength is
\* called exactly once, after the edit for the key has been applied to the
\* view (what it shows is the length of the message as edited), and the
\* editor returns true
C18_RenderOncePerKey ==
    /\ editor.renders <= 1
    /\ editor.renders = 1 =>
         /\ editor.applied
         /\ editor.pc \in { "return", "idle" }
         /\ editor.shown = Len(editor.buffer)
    /\ editor.pc = "return" => editor.renders = 1
    /\ KeyHandled =>
         /\ editor.renders = 1
         /\ editor.handled = TRUE

\* C18: a key no case takes has been handled with a message in the view
C18_Witness ==
    /\ KeyHandled
    /\ EditCase(editor.key, editor.ch, editor.newlineKey) = "none"
    /\ editor.renders = 1
    /\ editor.buffer = << "a", "\n" >>
    /\ editor.shown = 2

====
